---- MODULE Spec2Model ----
(***************************************************************************)
(* A model of src/src/jsonrpc.ts, the JSON-RPC 2.0 middleware for Koa:     *)
(* the error, request and response classes, the method registry, and the  *)
(* middleware with its private handleRequest.                              *)
(*                                                                         *)
(* JavaScript values are records of one shape, so that any two of them can *)
(* be compared: t is the value's kind ("undefined", "null", "boolean",     *)
(* "number", "string", "object", "array"), s the text of a string (or a    *)
(* label for a boolean/object), and hi, lo, frac a number: its magnitude   *)
(* is hi * 2^27 + lo (+ a fractional part when frac), so that 2^53 fits.   *)
(***************************************************************************)
EXTENDS Integers, Sequences, FiniteSets, TLC

VARIABLES namespace, methods, ctx, reqBody, data, calls, pc, nextCalls, rpcError

vars == <<namespace, methods, ctx, reqBody, data, calls, pc, nextCalls, rpcError>>

----------------------------------------------------------------------------
(* Bounds of the model.                                                    *)

\* The longest batch (array body) an exchange carries.
MaxBatch == 2

----------------------------------------------------------------------------
(* JavaScript values.                                                      *)

Limb == 2^27

JV(t, s, hi, lo, frac) == [t |-> t, s |-> s, hi |-> hi, lo |-> lo, frac |-> frac]

Undefined == JV("undefined", "", 0, 0, FALSE)
Null      == JV("null", "", 0, 0, FALSE)
JStr(s)   == JV("string", s, 0, 0, FALSE)
JInt(n)   == JV("number", "", 0, n, FALSE)
JBool(b)  == JV("boolean", IF b THEN "true" ELSE "false", 0, 0, FALSE)
JObject   == JV("object", "{}", 0, 0, FALSE)

\* 1.5, 2^53 - 1 (Number.MAX_SAFE_INTEGER) and 2^53
JFraction == JV("number", "", 0, 1, TRUE)
JMaxSafe  == JV("number", "", 2^26 - 1, Limb - 1, FALSE)
JUnsafe   == JV("number", "", 2^26, 0, FALSE)

\* typeof v: null is an "object" to typeof, and so is an array
TypeOf(v) == IF v.t \in {"null", "array"} THEN "object" ELSE v.t

\* JavaScript truthiness: !!v
Truthy(v) ==
    CASE v.t \in {"undefined", "null"} -> FALSE
      [] v.t = "boolean" -> v.s = "true"
      [] v.t = "number"  -> v.hi # 0 \/ v.lo # 0 \/ v.frac
      [] v.t = "string"  -> v.s # ""
      [] OTHER -> TRUE

\* Number.isSafeInteger(v): an integer of magnitude at most 2^53 - 1
IsSafeInteger(v) ==
    /\ v.t = "number"
    /\ ~v.frac
    /\ v.lo < Limb
    /\ v.hi <= 2^26 - 1

\* isValidId without the safe-integer test: any number passes
isValidIdAnyNumber(id) ==
    id.t = "null" \/ id.t = "undefined" \/ TypeOf(id) = "string"
        \/ TypeOf(id) = "number"

isValidId(id) ==
    id.t = "null" \/ id.t = "undefined" \/ TypeOf(id) = "string"
        \/ (TypeOf(id) = "number" /\ IsSafeInteger(id))

----------------------------------------------------------------------------
(* Errors.  A thrown value is a record: class is its constructor's name    *)
(* ("JsonRpcError", "VError", "Error", "TypeError", "AssertionError"), or  *)
(* "string" / "null" for a thrown value that is no Error; code is          *)
(* JsonRpcError.code; message is Error.message (the text, for a thrown     *)
(* string); info is what VError.info(err) returns, a set of <<key, value>> *)
(* pairs: the error's own info merged over that of its chain of causes.    *)

ParseError     == -32700
InvalidRequest == -32600
MethodNotFound == -32601
InvalidParams  == -32602
InternalError  == -32603

Err(class, code, message, info) ==
    [class |-> class, code |-> code, message |-> message, info |-> info]

\* no error: the value undefined where an error may stand
NoError == Err("undefined", 0, "", {})

ErrorClasses == {"JsonRpcError", "VError", "Error", "TypeError", "AssertionError"}

\* what verror asks of a cause: util.isError(cause)
IsError(e) == e.class \in ErrorClasses

\* `if (cause)`: every object is truthy; a thrown string is truthy unless empty
TruthyThrown(e) ==
    CASE e.class \in ErrorClasses -> TRUE
      [] e.class = "string" -> e.message # ""
      [] OTHER -> FALSE

InfoKeys(info) == {p[1] : p \in info}

\* for (k in err.jse_info) rv[k] = err.jse_info[k], over the cause's info
MergeInfo(causeInfo, own) ==
    own \cup {p \in causeInfo : p[1] \notin InfoKeys(own)}

\* The message verror composes: the formatted message, then ": " and the
\* cause's message when a cause is given (skipCauseMessage is never set).
VErrorMessage(cause, shortmessage) ==
    IF TruthyThrown(cause) THEN shortmessage \o ": " \o cause.message
    ELSE shortmessage

\* new JsonRpcError(code, {cause, info}, shortmessage), and with neither
\* cause nor info new JsonRpcError(code, shortmessage).  The base class
\* VError asserts that a cause which is given (truthy) is an Error, so the
\* constructor itself throws for any other cause.  The result is
\* [threw, e]: e is the new error, or what the constructor threw.
JsonRpcErrorNew(code, cause, info, shortmessage) ==
    IF TruthyThrown(cause) /\ ~IsError(cause)
    THEN [threw |-> TRUE,
          e |-> Err("AssertionError", 0, "cause is not an Error", {})]
    ELSE [threw |-> FALSE,
          e |-> Err("JsonRpcError", code, VErrorMessage(cause, shortmessage),
                    MergeInfo(IF TruthyThrown(cause) THEN cause.info ELSE {}, info))]

\* JsonRpcError.toJSON, as JSON.stringify writes it: keys are the keys of
\* the serialized object, data is the info (empty when there is no data key).
ErrorJSON(keys, code, message, dat) ==
    [keys |-> keys, code |-> code, message |-> message, data |-> dat]

NoErrorJSON == ErrorJSON({}, 0, "", {})

\* a serialization that always writes the data key
JsonRpcError_toJSONAlwaysData(e) ==
    ErrorJSON({"code", "data", "message"}, e.code, e.message, e.info)

JsonRpcError_toJSON(e) ==
    IF Cardinality(InfoKeys(e.info)) > 0
    THEN ErrorJSON({"code", "data", "message"}, e.code, e.message, e.info)
    ELSE ErrorJSON({"code", "message"}, e.code, e.message, {})

\* rpcAssert(value, message): throws JsonRpcError(400) unless value is truthy.
\* The result is [threw, e].
rpcAssert(value, message) ==
    IF ~Truthy(value)
    THEN [threw |-> TRUE,
          e |-> JsonRpcErrorNew(400, NoError, {},
                    IF message # "" THEN message ELSE "Assertion failed").e]
    ELSE [threw |-> FALSE, e |-> NoError]

\* actual != expected, on the values the model compares: the loose
\* comparison of two values of one kind is that of their contents.
LooseEqual(a, b) ==
    \/ a = b
    \/ a.t \in {"null", "undefined"} /\ b.t \in {"null", "undefined"}

\* rpcAssertEqual(actual, expected, message): throws JsonRpcError(400) with
\* info {actual, expected} when the two differ.
rpcAssertEqual(actual, expected, message) ==
    IF ~LooseEqual(actual, expected)
    THEN [threw |-> TRUE,
          e |-> JsonRpcErrorNew(400, NoError,
                    {<<"actual", actual>>, <<"expected", expected>>},
                    IF message # "" THEN message ELSE "Assertion failed").e]
    ELSE [threw |-> FALSE, e |-> NoError]

----------------------------------------------------------------------------
(* Requests.  params is [t, keys, vals]: t is the kind of the params value *)
(* ("undefined" when absent), vals the elements of an array or the values  *)
(* of an object, keys the object's keys.                                   *)

Params(t, keys, vals) == [t |-> t, keys |-> keys, vals |-> vals]

NoParams == Params("undefined", <<>>, <<>>)

\* A decoded JSON value handed to handleRequest.  t is its kind; the four
\* fields are its properties when it is an object (Undefined when absent).
Item(t, jsonrpc, id, method, params) ==
    [t |-> t, jsonrpc |-> jsonrpc, id |-> id, method |-> method, params |-> params]

Request(defined, jsonrpc, id, method, params) ==
    [defined |-> defined, jsonrpc |-> jsonrpc, id |-> id, method |-> method,
     params |-> params]

\* no request: the value undefined where a request may stand
NoRequest == Request(FALSE, Undefined, Undefined, Undefined, NoParams)

\* the three assertions of the JsonRpcRequest constructor, in order
RequestAssertion(jsonrpc, id, method) ==
    CASE ~(jsonrpc = JStr("2.0")) -> "invalid rpc version"
      [] ~isValidId(id) -> "invalid id"
      [] ~(TypeOf(method) = "string") -> "invalid method"
      [] OTHER -> ""

\* JsonRpcRequest.from(data): [threw, e, request].  Destructuring null
\* throws a TypeError; a property of any other value that is no object
\* (a number, a string, an array) is undefined.
JsonRpcRequest_from(d) ==
    LET obj == IF d.t = "object" THEN d
               ELSE Item(d.t, Undefined, Undefined, Undefined, NoParams)
        failed == RequestAssertion(obj.jsonrpc, obj.id, obj.method)
    IN  IF d.t \in {"null", "undefined"}
        THEN [threw |-> TRUE, request |-> NoRequest,
              e |-> Err("TypeError", 0, "Cannot destructure property of null", {})]
        ELSE IF failed # ""
        THEN [threw |-> TRUE, request |-> NoRequest,
              e |-> Err("AssertionError", 0, failed, {})]
        ELSE [threw |-> FALSE, e |-> NoError,
              request |-> Request(TRUE, obj.jsonrpc, obj.id, obj.method, obj.params)]

----------------------------------------------------------------------------
(* Responses.                                                              *)

Response(id, error, request, result, time) ==
    [jsonrpc |-> "2.0", id |-> id, error |-> error, request |-> request,
     result |-> result, time |-> time]

\* new JsonRpcResponse({error, request, result, time}): [threw, r].  The two
\* assertions fail when a truthy result comes with an error.
JsonRpcResponseNew(error, request, result, time) ==
    [threw |-> Truthy(result) /\ error.class # "undefined",
     r |-> Response(IF request.defined THEN request.id ELSE Null,
                    error, request,
                    IF result.t = "undefined" THEN Null ELSE result,
                    time)]

\* the response a call left no trace of (a call still pending, or rejected)
NoResponse == Response(Undefined, NoError, NoRequest, Undefined, "undefined")

\* isValidResponse with `!== undefined` alone for the id: a null id counts
isValidResponseNullCounts(response) ==
    response.id.t # "undefined" \/ response.error.class # "undefined"

isValidResponse(response) ==
    (response.id.t # "null" /\ response.id.t # "undefined")
        \/ response.error.class # "undefined"

\* toJSON with the branch on error left out: every field is written
JsonRpcResponse_toJSONAllFields(r) ==
    [keys |-> {"jsonrpc", "id", "error", "result"}
                  \ (IF r.id.t = "undefined" THEN {"id"} ELSE {}),
     jsonrpc |-> r.jsonrpc,
     id |-> r.id,
     result |-> r.result,
     error |-> IF r.error.class # "undefined" THEN JsonRpcError_toJSON(r.error)
               ELSE NoErrorJSON]

\* JsonRpcResponse.toJSON as JSON.stringify writes it: toJSON picks
\* {jsonrpc, id, error} or {jsonrpc, id, result}, and stringify leaves out a
\* key whose value is undefined.
JsonRpcResponse_toJSON(r) ==
    LET picked == IF r.error.class # "undefined"
                  THEN {"jsonrpc", "id", "error"}
                  ELSE {"jsonrpc", "id", "result"}
        dropped == (IF r.id.t = "undefined" THEN {"id"} ELSE {})
                       \cup (IF r.result.t = "undefined" THEN {"result"} ELSE {})
    IN  [keys |-> picked \ dropped,
         jsonrpc |-> r.jsonrpc,
         id |-> r.id,
         result |-> IF "result" \in picked THEN r.result ELSE Undefined,
         error |-> IF "error" \in picked THEN JsonRpcError_toJSON(r.error)
                   ELSE NoErrorJSON]

----------------------------------------------------------------------------
(* The method registry.  methods is the plain object `{}` of the class:    *)
(* its own properties are a set of entries [name, method, params], one per *)
(* name; a lookup of any other name goes on to Object.prototype.           *)

\* the properties every plain object inherits
ObjectPrototypeKeys ==
    {"constructor", "toString", "toLocaleString", "valueOf", "hasOwnProperty",
     "isPrototypeOf", "propertyIsEnumerable", "__proto__", "__defineGetter__",
     "__defineSetter__", "__lookupGetter__", "__lookupSetter__"}

\* the handlers an application registers, by identity
Handlers == {"h1", "h2"}

\* getParamNames(method): the formal parameter names of the handler
getParamNames(method) == IF method = "h1" THEN <<"a", "b">> ELSE <<>>

\* What methods[n] evaluates to.  kind "own": a registered entry; kind
\* "inherited": a member of Object.prototype, which is truthy and has
\* neither a method nor a params property; kind "undefined": no property.
Entry(kind, method, params) == [kind |-> kind, method |-> method, params |-> params]

MethodsGet(ms, n) ==
    IF \E e \in ms : e.name = n
    THEN LET e == CHOOSE e \in ms : e.name = n
         IN  Entry("own", e.method, e.params)
    ELSE IF n \in ObjectPrototypeKeys
    THEN Entry("inherited", "", <<>>)
    ELSE Entry("undefined", "", <<>>)

\* `${ this.namespace }.${ name }` when a namespace is set ("" is none)
RegisteredName(ns, name) == IF ns # "" THEN ns \o "." \o name ELSE name

\* resolveParams(params, names) for the entry the lookup gave: [threw, e,
\* args].  An array passes through; the values of an object are placed by
\* the formal names, an unknown key fails; any other value fails; so does
\* an object when the entry has no params (names is undefined).
IndexOf(names, key) ==
    IF \E i \in 1..Len(names) : names[i] = key
    THEN CHOOSE i \in 1..Len(names) : names[i] = key
    ELSE 0

resolveParams(params, handler) ==
    LET names == handler.params
        fail(msg) == [threw |-> TRUE, args |-> <<>>, e |-> Err("AssertionError", 0, msg, {})]
    IN  CASE params.t = "array" ->
               [threw |-> FALSE, args |-> params.vals, e |-> NoError]
          [] params.t = "object" /\ handler.kind # "own" ->
               [threw |-> TRUE, args |-> <<>>,
                e |-> Err("TypeError", 0, "Cannot read property 'map' of undefined", {})]
          [] params.t = "object" /\ \E k \in 1..Len(params.keys) : IndexOf(names, params.keys[k]) = 0 ->
               fail("unknown param")
          [] params.t = "object" ->
               [threw |-> FALSE, e |-> NoError,
                args |-> [i \in 1..Len(names) |->
                            IF \E k \in 1..Len(params.keys) : params.keys[k] = names[i]
                            THEN params.vals[CHOOSE k \in 1..Len(params.keys) : params.keys[k] = names[i]]
                            ELSE Undefined]]
          [] OTHER -> fail("not an object or array")

----------------------------------------------------------------------------
(* handleRequest.  A call is the state of one handleRequest promise: st is *)
(* "pending" (the handler was invoked and is awaited), "resolved" (with    *)
(* response) or "rejected" (with thrown, the exception that escaped).      *)
(* invoked tells whether the handler was applied, method and args to what, *)
(* and outcome what the handler then did (kind "none" until it has).       *)

\* What a handler may do once applied: return a value, or throw one.
Outcome(kind, value, error) == [kind |-> kind, value |-> value, error |-> error]

NoOutcome == Outcome("none", Undefined, NoError)

Call(st, request, invoked, method, args, log, response, thrown) ==
    [st |-> st, request |-> request, invoked |-> invoked, method |-> method,
     args |-> args, log |-> log, response |-> response, thrown |-> thrown,
     outcome |-> NoOutcome]

\* return new JsonRpcResponse({request, error}) with the error just built:
\* either constructor may throw, and nothing catches it there.
ReturnError(made, request, invoked, method, args, log) ==
    LET built == JsonRpcResponseNew(made.e, request, Undefined, "undefined")
    IN  IF made.threw
        THEN Call("rejected", request, invoked, method, args, log, NoResponse, made.e)
        ELSE IF built.threw
        THEN Call("rejected", request, invoked, method, args, log, NoResponse,
                  Err("AssertionError", 0, "must specify either result or error", {}))
        ELSE Call("resolved", request, invoked, method, args, log, built.r, NoError)

\* the catch block of the invocation: an error that is no JsonRpcError is
\* wrapped as the cause of an InternalError
Catch(error, request, invoked, method, args, log) ==
    ReturnError(IF error.class # "JsonRpcError"
                THEN JsonRpcErrorNew(InternalError, error, {}, "Internal error")
                ELSE [threw |-> FALSE, e |-> error],
                request, invoked, method, args, log)

\* the handler returned: return new JsonRpcResponse({request, result, time})
ReturnResult(result, request, method, args, log) ==
    LET built == JsonRpcResponseNew(NoError, request, result, "measured")
    IN  IF built.threw
        THEN Call("rejected", request, TRUE, method, args, log, NoResponse,
                  Err("AssertionError", 0, "must specify either result or error", {}))
        ELSE Call("resolved", request, TRUE, method, args, log, built.r, NoError)

\* handleRequest(d, ctx) up to its await: the request is parsed, the method
\* looked up, the params resolved, the child logger made and the handler
\* applied.  logger is ctx.log: "undefined", "ok" (child returns a logger)
\* or "throws" (child throws).
handleRequest(ms, d, logger) ==
    LET parsed   == JsonRpcRequest_from(d)
        request  == parsed.request
        handler  == MethodsGet(ms, request.method.s)
        resolved == IF request.params.t # "undefined"
                    THEN resolveParams(request.params, handler)
                    ELSE [threw |-> FALSE, args |-> <<>>, e |-> NoError]
        log      == IF logger = "undefined" THEN "undefined" ELSE "child"
    IN  IF parsed.threw
        THEN ReturnError(JsonRpcErrorNew(InvalidRequest, parsed.e, {}, "Invalid Request"),
                         NoRequest, FALSE, "", <<>>, "undefined")
        ELSE IF handler.kind = "undefined"
        THEN ReturnError(JsonRpcErrorNew(MethodNotFound, NoError, {}, "Method not found"),
                         request, FALSE, "", <<>>, "undefined")
        ELSE IF resolved.threw
        THEN ReturnError(JsonRpcErrorNew(InvalidParams, resolved.e, {}, "Invalid params"),
                         request, FALSE, "", <<>>, "undefined")
        ELSE IF logger = "throws"
        THEN Call("rejected", request, FALSE, "", resolved.args, "undefined", NoResponse,
                  Err("Error", 0, "child failed", {}))
        ELSE IF handler.kind = "inherited"
        THEN Catch(Err("TypeError", 0, "Cannot read property 'apply' of undefined", {}),
                   request, FALSE, "", resolved.args, log)
        ELSE Call("pending", request, TRUE, handler.method, resolved.args, log,
                  NoResponse, NoError)

ReturnValues == {Undefined, JInt(0), JInt(5)}

ThrownValues ==
    {rpcAssert(JBool(FALSE), "").e,
     rpcAssertEqual(JInt(1), JInt(2), "not equal").e,
     Err("Error", 0, "secret A", {}),
     Err("Error", 0, "secret B", {}),
     Err("string", 0, "boom", {}),
     Err("null", 0, "", {})}

Outcomes ==
    {Outcome("return", v, NoError) : v \in ReturnValues}
        \cup {Outcome("throw", Undefined, e) : e \in ThrownValues}

\* handleRequest after its await: the handler's outcome becomes the Response
Settle(call, outcome) ==
    [(IF outcome.kind = "return"
      THEN ReturnResult(outcome.value, call.request, call.method, call.args, call.log)
      ELSE Catch(outcome.error, call.request, TRUE, call.method, call.args, call.log))
     EXCEPT !.outcome = outcome]

----------------------------------------------------------------------------
(* The inputs the model draws from.                                        *)

Verbs == {"POST", "GET"}

\* ctx.log: no logger, a logger whose child() returns, one whose child() throws
Loggers == {"undefined", "ok", "throws"}

Namespaces == {"", "ns"}

\* the names an application registers, and the names requests ask for
RegisterNames == {"add", "toString"}

ValidIds   == {Undefined, Null, JInt(1), JStr("a"), JMaxSafe}
InvalidIds == {JFraction, JUnsafe, JBool(TRUE), JObject}

MethodNames == {"add", "ns.add", "toString", ""}

ParamValues ==
    {NoParams,
     Params("array", <<>>, <<JInt(2), JInt(3)>>),
     Params("object", <<"b", "a">>, <<JInt(3), JInt(2)>>),
     Params("object", <<"zz">>, <<JInt(1)>>),
     Params("string", <<>>, <<>>)}

\* decoded values that are no object
ScalarItems ==
    {Item(t, Undefined, Undefined, Undefined, NoParams) :
        t \in {"null", "number", "string", "array"}}

\* well-formed requests
ValidItems ==
    {Item("object", JStr("2.0"), id, JStr(m), p) :
        id \in ValidIds, m \in MethodNames, p \in ParamValues}

\* objects that break one invariant of a request
InvalidItems ==
    {Item("object", v, id, JStr("add"), NoParams) :
        v \in {Undefined, JStr("1.0"), JInt(2)}, id \in {Undefined, JInt(1)}}
    \cup {Item("object", JStr("2.0"), id, JStr("add"), NoParams) : id \in InvalidIds}
    \cup {Item("object", JStr("2.0"), id, m, NoParams) :
              id \in {Undefined, JInt(1)}, m \in {Undefined, JInt(7), Null}}

\* what the body of a single call decodes to
SingleItems ==
    {d \in ScalarItems : d.t # "array"} \cup ValidItems \cup InvalidItems

\* what the elements of a batch are drawn from
BatchItems ==
    {Item("null", Undefined, Undefined, Undefined, NoParams),
     Item("object", JStr("2.0"), Undefined, JStr("add"), NoParams),
     Item("object", JStr("2.0"), Null, JStr("add"), NoParams),
     Item("object", JStr("2.0"), JInt(1), JStr("add"), Params("array", <<>>, <<JInt(2), JInt(3)>>)),
     Item("object", JStr("2.0"), JStr("a"), JStr("ns.add"), NoParams),
     Item("object", JStr("2.0"), JInt(1), JStr("toString"), NoParams)}

Batches == UNION {[1..n -> BatchItems] : n \in 0..MaxBatch}

\* a request body: text that does not decode, a single value, or an array
Body(t, items) == [t |-> t, items |-> items]

Bodies ==
    {Body("malformed", <<>>)}
        \cup {Body("value", <<d>>) : d \in SingleItems}
        \cup {Body("array", b) : b \in Batches}

----------------------------------------------------------------------------
(* The state.  ctx is the Koa context of the exchange in hand: method and  *)
(* log come with it; status, body and rpc_responses are what the           *)
(* middleware sets.  body is [t, rs]: t "undefined" (not set), "response"  *)
(* (rs holds the one Response), "array" (rs is the array) or "empty" ('').*)
(* pc is where the middleware stands: "idle" (no exchange yet), "reading"  *)
(* (awaiting readJson), "awaiting" (awaiting handleRequest), "done"        *)
(* (returned next()) or "rejected" (an exception escaped it).              *)

BodyValue(t, rs) == [t |-> t, rs |-> rs]

Ctx(method, log, status, body, set, rs) ==
    [method |-> method, log |-> log, status |-> status, body |-> body,
     rpc_responses |-> [set |-> set, rs |-> rs]]

\* a context as Koa makes it: status 404, no body
NewCtx(method, log) == Ctx(method, log, 404, BodyValue("undefined", <<>>), FALSE, <<>>)

\* An error under construction outside any exchange (what a handler author
\* does with `new JsonRpcError(...)` and JSON.stringify): st is "none" (no
\* such error), "args" (the arguments are chosen), "made" (the constructor
\* returned e), "threw" (it threw e) or "written" (json is e.toJSON()).
Construction(st, code, cause, info, shortmessage, e, json) ==
    [st |-> st, code |-> code, cause |-> cause, info |-> info,
     shortmessage |-> shortmessage, e |-> e, json |-> json]

NoConstruction == Construction("none", 0, NoError, {}, "", NoError, NoErrorJSON)

\* a registry as its constructor leaves it, and no exchange in hand
NewJsonRpc ==
    /\ namespace \in Namespaces
    /\ methods = {}
    /\ ctx = NewCtx("POST", "undefined")
    /\ reqBody = Body("malformed", <<>>)
    /\ data = Body("undefined", <<>>)
    /\ calls = <<>>
    /\ pc = "idle"
    /\ nextCalls = 0

Init ==
    /\ NewJsonRpc
    /\ rpcError = NoConstruction

\* the assertion of register: assert(!this.methods[n], 'method already
\* exists') throws when methods[n] is truthy
registerThrows(ms, n) == MethodsGet(ms, n).kind # "undefined"

\* register(name, method): throws when methods[n] is truthy, and stores the
\* entry otherwise
register(name, method) ==
    LET n == RegisteredName(namespace, name)
    IN  /\ methods' = IF registerThrows(methods, n)
                      THEN methods
                      ELSE methods \cup {[name |-> n, method |-> method,
                                          params |-> getParamNames(method)]}
        /\ UNCHANGED <<rpcError, namespace, ctx, reqBody, data, calls, pc, nextCalls>>

\* the body of `new JsonRpcResponse({error})` for an error made without a
\* cause or with an Error as its cause
ErrorBody(code, cause, message) ==
    BodyValue("response",
              <<JsonRpcResponseNew(JsonRpcErrorNew(code, cause, {}, message).e,
                                   NoRequest, Undefined, "undefined").r>>)

\* a middleware that reads the body whatever the verb
MiddlewareEnterAnyVerb(verb, logger, body) ==
    /\ pc = "idle"
    /\ reqBody' = body
    /\ data' = Body("undefined", <<>>)
    /\ calls' = <<>>
    /\ ctx' = NewCtx(verb, logger)
    /\ nextCalls' = 0
    /\ pc' = "reading"
    /\ UNCHANGED <<rpcError, namespace, methods>>

\* middleware(ctx, next) up to its first await: a request that is no POST
\* is answered at once, any other goes on to read its body.
MiddlewareEnter(verb, logger, body) ==
    /\ pc = "idle"
    /\ reqBody' = body
    /\ data' = Body("undefined", <<>>)
    /\ calls' = <<>>
    /\ IF verb # "POST"
       THEN /\ ctx' = [NewCtx(verb, logger) EXCEPT
                          !.status = 405,
                          !.body = ErrorBody(InvalidRequest, NoError, "Method Not Allowed")]
            /\ nextCalls' = 1
            /\ pc' = "done"
       ELSE /\ ctx' = NewCtx(verb, logger)
            /\ nextCalls' = 0
            /\ pc' = "reading"
    /\ UNCHANGED <<rpcError, namespace, methods>>

\* readJson rejects: the body is no JSON
ReadJsonFails ==
    /\ pc = "reading"
    /\ reqBody.t = "malformed"
    /\ ctx' = [ctx EXCEPT
                  !.status = 400,
                  !.body = ErrorBody(ParseError,
                                     Err("Error", 0, "Unexpected token", {}),
                                     "Parse error")]
    /\ nextCalls' = nextCalls + 1
    /\ pc' = "done"
    /\ UNCHANGED <<rpcError, namespace, methods, reqBody, data, calls>>

\* EmptyBatch with the empty-array check left out: the empty array is
\* dispatched as a batch of no calls
EmptyBatchUnchecked ==
    /\ pc = "reading"
    /\ reqBody.t = "array" /\ Len(reqBody.items) = 0
    /\ data' = reqBody
    /\ ctx' = [ctx EXCEPT
                  !.status = 200,
                  !.body = BodyValue("empty", <<>>),
                  !.rpc_responses = [set |-> TRUE, rs |-> <<>>]]
    /\ nextCalls' = nextCalls + 1
    /\ pc' = "done"
    /\ UNCHANGED <<rpcError, namespace, methods, reqBody, calls>>

\* readJson gives an empty array
EmptyBatch ==
    /\ pc = "reading"
    /\ reqBody.t = "array" /\ Len(reqBody.items) = 0
    /\ data' = reqBody
    /\ ctx' = [ctx EXCEPT
                  !.status = 400,
                  !.body = ErrorBody(InvalidRequest, NoError, "Invalid Request")]
    /\ nextCalls' = nextCalls + 1
    /\ pc' = "done"
    /\ UNCHANGED <<rpcError, namespace, methods, reqBody, calls>>

\* readJson gives a non-empty array: data.map((d) => this.handleRequest(d, ctx))
\* runs every handleRequest up to its await, in the order of the array
DispatchBatch ==
    /\ pc = "reading"
    /\ reqBody.t = "array" /\ Len(reqBody.items) # 0
    /\ data' = reqBody
    /\ ctx' = [ctx EXCEPT !.status = 200]
    /\ calls' = [i \in 1..Len(reqBody.items) |->
                    handleRequest(methods, reqBody.items[i], ctx.log)]
    /\ pc' = "awaiting"
    /\ UNCHANGED <<rpcError, namespace, methods, reqBody, nextCalls>>

\* a dispatch that drops the entry it has looked up from the registry
DispatchSingleForgets ==
    /\ pc = "reading"
    /\ reqBody.t = "value"
    /\ data' = reqBody
    /\ ctx' = [ctx EXCEPT !.status = 200]
    /\ calls' = <<handleRequest(methods, reqBody.items[1], ctx.log)>>
    /\ pc' = "awaiting"
    /\ methods' = {e \in methods : e.name # reqBody.items[1].method.s}
    /\ UNCHANGED <<rpcError, namespace, reqBody, nextCalls>>

\* readJson gives any other value: this.handleRequest(data, ctx)
DispatchSingle ==
    /\ pc = "reading"
    /\ reqBody.t = "value"
    /\ data' = reqBody
    /\ ctx' = [ctx EXCEPT !.status = 200]
    /\ calls' = <<handleRequest(methods, reqBody.items[1], ctx.log)>>
    /\ pc' = "awaiting"
    /\ UNCHANGED <<rpcError, namespace, methods, reqBody, nextCalls>>

\* the handler of call i returns or throws, and handleRequest goes on from
\* its await to its return
HandlerSettles(i, outcome) ==
    /\ pc \in {"awaiting", "rejected"}
    /\ i \in 1..Len(calls)
    /\ calls[i].st = "pending"
    /\ calls' = [calls EXCEPT ![i] = Settle(calls[i], outcome)]
    /\ UNCHANGED <<rpcError, namespace, methods, ctx, reqBody, data, pc, nextCalls>>

\* the surviving responses of a batch, last first
FilterBackwards(rs) ==
    LET kept == SelectSeq(rs, isValidResponse)
    IN  [k \in 1..Len(kept) |-> kept[Len(kept) + 1 - k]]

\* the surviving responses of a batch
Filter(rs) == SelectSeq(rs, isValidResponse)

\* Promise.all resolved: every handleRequest of the batch returned
BatchDone ==
    /\ pc = "awaiting"
    /\ data.t = "array"
    /\ \A i \in 1..Len(calls) : calls[i].st = "resolved"
    /\ LET responses == Filter([i \in 1..Len(calls) |-> calls[i].response])
       IN  ctx' = [ctx EXCEPT
                      !.body = IF Len(responses) > 0
                               THEN BodyValue("array", responses)
                               ELSE BodyValue("empty", <<>>),
                      !.rpc_responses = [set |-> TRUE, rs |-> responses]]
    /\ nextCalls' = nextCalls + 1
    /\ pc' = "done"
    /\ UNCHANGED <<rpcError, namespace, methods, reqBody, data, calls>>

\* the handleRequest of a single call returned
SingleDone ==
    /\ pc = "awaiting"
    /\ data.t = "value"
    /\ calls[1].st = "resolved"
    /\ LET response == calls[1].response
       IN  ctx' = [ctx EXCEPT
                      !.body = IF isValidResponse(response)
                               THEN BodyValue("response", <<response>>)
                               ELSE BodyValue("empty", <<>>),
                      !.rpc_responses = [set |-> TRUE, rs |-> <<response>>]]
    /\ nextCalls' = nextCalls + 1
    /\ pc' = "done"
    /\ UNCHANGED <<rpcError, namespace, methods, reqBody, data, calls>>

\* a handleRequest promise rejected: the await (of it, or of Promise.all,
\* which rejects with the first rejection without waiting for the rest)
\* throws, and the middleware rejects with nothing after it run
MiddlewareRejects ==
    /\ pc = "awaiting"
    /\ \E i \in 1..Len(calls) : calls[i].st = "rejected"
    /\ pc' = "rejected"
    /\ UNCHANGED <<rpcError, namespace, methods, ctx, reqBody, data, calls, nextCalls>>

\* The exchange is over: Koa has answered (from ctx.status and ctx.body, or
\* with its own error response when the middleware rejected) and dropped the
\* context; the next request finds the registry as it is.
ExchangeOver ==
    /\ pc \in {"done", "rejected"}
    /\ \A i \in 1..Len(calls) : calls[i].st # "pending"
    /\ ctx' = NewCtx("POST", "undefined")
    /\ reqBody' = Body("malformed", <<>>)
    /\ data' = Body("undefined", <<>>)
    /\ calls' = <<>>
    /\ pc' = "idle"
    /\ nextCalls' = 0
    /\ UNCHANGED <<rpcError, namespace, methods>>

Next ==
    \/ \E name \in RegisterNames, method \in Handlers : register(name, method)
    \/ \E verb \in Verbs, logger \in Loggers, body \in Bodies :
           MiddlewareEnter(verb, logger, body)
    \/ ReadJsonFails
    \/ EmptyBatch
    \/ DispatchBatch
    \/ DispatchSingle
    \/ \E i \in 1..MaxBatch + 1, outcome \in Outcomes : HandlerSettles(i, outcome)
    \/ BatchDone
    \/ SingleDone
    \/ MiddlewareRejects
    \/ ExchangeOver

Spec == Init /\ [][Next]_vars

----------------------------------------------------------------------------
(* The error model on its own: a JsonRpcError is constructed from chosen   *)
(* arguments and serialized.  A context {cause}, {info} or {cause, info}   *)
(* is the pair (cause, info); cause NoError and info {} stand for a        *)
(* construction with the message alone.                                    *)

ErrorCodes ==
    {ParseError, InvalidRequest, MethodNotFound, InvalidParams, InternalError, 400}

Causes ==
    {NoError,
     Err("Error", 0, "secret A", {}),
     Err("VError", 0, "denied", {<<"user", JStr("u")>>}),
     rpcAssertEqual(JInt(1), JInt(2), "not equal").e,
     Err("string", 0, "boom", {})}

Infos ==
    {{},
     {<<"actual", JInt(1)>>, <<"expected", JInt(2)>>},
     {<<"user", JStr("v")>>}}

Messages == {"Assertion failed", "Internal error"}

InitError ==
    /\ NewJsonRpc
    /\ rpcError \in {Construction("args", code, cause, info, shortmessage, NoError, NoErrorJSON) :
                      code \in ErrorCodes, cause \in Causes, info \in Infos,
                      shortmessage \in Messages}

\* new JsonRpcError(code, {cause, info}, shortmessage)
Construct ==
    /\ rpcError.st = "args"
    /\ LET made == JsonRpcErrorNew(rpcError.code, rpcError.cause, rpcError.info,
                                   rpcError.shortmessage)
       IN  rpcError' = [rpcError EXCEPT !.st = IF made.threw THEN "threw" ELSE "made",
                                  !.e = made.e]
    /\ UNCHANGED <<namespace, methods, ctx, reqBody, data, calls, pc, nextCalls>>

\* JSON.stringify(error) calls error.toJSON()
Serialize ==
    /\ rpcError.st = "made"
    /\ rpcError' = [rpcError EXCEPT !.st = "written", !.json = JsonRpcError_toJSON(rpcError.e)]
    /\ UNCHANGED <<namespace, methods, ctx, reqBody, data, calls, pc, nextCalls>>

NextError == Construct \/ Serialize

SpecError == InitError /\ [][NextError]_vars

----------------------------------------------------------------------------
(* What the claims speak of.                                               *)

\* the exchange in hand is over
ExchangeEnded == pc \in {"done", "rejected"}

\* item d is a well-formed request: an object with jsonrpc "2.0", an id that
\* is a string, a safe integer, null or absent, and a string method
WellFormed(d) ==
    /\ d.t = "object"
    /\ d.jsonrpc = JStr("2.0")
    /\ d.id \in ValidIds
    /\ d.method.t = "string"

IsNotification(d) == d.id.t \in {"undefined", "null"}

\* the names registered so far
RegisteredNames == {e.name : e \in methods}

\* the wire form of an error Response with id null and no data
ErrorWire(code, message) ==
    [keys |-> {"jsonrpc", "id", "error"}, jsonrpc |-> "2.0", id |-> Null,
     result |-> Undefined,
     error |-> ErrorJSON({"code", "message"}, code, message, {})]

\* the items handed to handleRequest, in order, once dispatched
Dispatched == Len(calls) > 0

----------------------------------------------------------------------------
(* C1: handleRequest never lets an exception escape: whatever the payload  *)
(* item, the registry, the handler's behaviour and the logger, every       *)
(* handleRequest promise ends resolved with a Response, none rejected.     *)
C1_HandleRequestNeverRejects ==
    \A i \in 1..Len(calls) : calls[i].st # "rejected"

(* C2: for a non-empty batch the middleware raises no uncaught failure,    *)
(* and once it is done the output array holds exactly the visible          *)
(* Responses, one per visible item in the items' order, each with the id   *)
(* and the request of its own item.                                        *)
C2_BatchOutputExact ==
    (data.t = "array" /\ Len(data.items) > 0) =>
        /\ pc # "rejected"
        /\ pc = "done" =>
              LET all == [i \in 1..Len(calls) |-> calls[i].response]
                  visible == {i \in 1..Len(calls) :
                                 \/ all[i].id.t \notin {"null", "undefined"}
                                 \/ all[i].error.class # "undefined"}
              IN  /\ Len(ctx.rpc_responses.rs) = Cardinality(visible)
                  /\ \A i \in visible :
                        \E k \in 1..Len(ctx.rpc_responses.rs) :
                            /\ ctx.rpc_responses.rs[k] = all[i]
                            /\ WellFormed(data.items[i]) =>
                                   /\ all[i].id = data.items[i].id
                                   /\ all[i].request.method = data.items[i].method
                  /\ ctx.body = IF visible = {} THEN BodyValue("empty", <<>>)
                                ELSE BodyValue("array", ctx.rpc_responses.rs)

(* C3: at the end of an exchange the status is 405 iff the verb is not     *)
(* POST, 400 iff it is POST and the body does not decode or decodes to an  *)
(* empty array, and 200 otherwise; with 405 and 400 the body is one error  *)
(* Response with id null, of code InvalidRequest with message "Method Not  *)
(* Allowed", ParseError, or InvalidRequest.                                *)
C3_StatusByTransport ==
    ExchangeEnded =>
        LET notPost  == ctx.method # "POST"
            badBody  == reqBody.t = "malformed"
            emptyArr == reqBody.t = "array" /\ Len(reqBody.items) = 0
            wire     == JsonRpcResponse_toJSON(ctx.body.rs[1])
        IN  /\ ctx.status \in {200, 400, 405}
            /\ (ctx.status = 405) <=> notPost
            /\ (ctx.status = 400) <=> (~notPost /\ (badBody \/ emptyArr))
            /\ ctx.status # 200 =>
                  /\ ctx.body.t = "response"
                  /\ Len(ctx.body.rs) = 1
                  /\ wire.keys = {"jsonrpc", "id", "error"}
                  /\ wire.id = Null
                  /\ "code" \in wire.error.keys
            /\ notPost => wire = ErrorWire(InvalidRequest, "Method Not Allowed")
            /\ (~notPost /\ badBody) => wire.error.code = ParseError
            /\ (~notPost /\ emptyArr) => wire.error.code = InvalidRequest

\* an empty-array body was answered with 400
C3_Witness ==
    /\ pc = "done"
    /\ reqBody.t = "array" /\ Len(reqBody.items) = 0
    /\ ctx.status = 400
    /\ ctx.body.rs[1].error.code = InvalidRequest

C5_NotificationSingle ==
    (pc = "done" /\ data.t = "value" /\ Dispatched) =>
        LET d == data.items[1]
            r == calls[1].response
        IN  (WellFormed(d) /\ IsNotification(d)) =>
                IF r.error.class = "undefined"
                THEN ctx.body = BodyValue("empty", <<>>)
                ELSE /\ ctx.body = BodyValue("response", <<r>>)
                     /\ "id" \in JsonRpcResponse_toJSON(r).keys
                     /\ JsonRpcResponse_toJSON(r).id = Null

\* call i of the exchange is a notification whose handler returned
SucceededNotification(i) ==
    /\ WellFormed(data.items[i]) /\ IsNotification(data.items[i])
    /\ calls[i].outcome.kind = "return"

(* C6, as claimed: a batch whose items are all notifications leaves an     *)
(* empty body, and no notification has a Response in the output array of   *)
(* any batch.                                                              *)
C6_NotificationsOmitted ==
    (pc = "done" /\ data.t = "array" /\ Dispatched) =>
        /\ (\A i \in 1..Len(calls) :
                WellFormed(data.items[i]) /\ IsNotification(data.items[i]))
              => ctx.body = BodyValue("empty", <<>>)
        /\ \A i \in 1..Len(calls), k \in 1..Len(ctx.rpc_responses.rs) :
              (WellFormed(data.items[i]) /\ IsNotification(data.items[i]))
                  => ctx.rpc_responses.rs[k] # calls[i].response

(* C6, amended: a batch whose items are all notifications that succeed     *)
(* leaves an empty body ('', neither an array nor null), and a             *)
(* notification that succeeds has no Response in the output array of any   *)
(* batch.                                                                  *)
C6_SucceededNotificationsOmitted ==
    (pc = "done" /\ data.t = "array" /\ Dispatched) =>
        /\ (\A i \in 1..Len(calls) : SucceededNotification(i))
              => ctx.body = BodyValue("empty", <<>>)
        /\ \A i \in 1..Len(calls), k \in 1..Len(ctx.rpc_responses.rs) :
              SucceededNotification(i) => ctx.rpc_responses.rs[k] # calls[i].response
        /\ ctx.body.t = "array" => Len(ctx.body.rs) > 0

\* a batch of two notifications, one with an absent and one with a null id,
\* both succeeded, and the body is empty
C6_Witness ==
    /\ pc = "done" /\ data.t = "array" /\ Len(calls) = 2
    /\ SucceededNotification(1) /\ data.items[1].id = Undefined
    /\ SucceededNotification(2) /\ data.items[2].id = Null
    /\ ctx.body = BodyValue("empty", <<>>)
    /\ ctx.rpc_responses = [set |-> TRUE, rs |-> <<>>]

(* C7: a well-formed request whose method name was never registered is a   *)
(* registry miss: its Response carries MethodNotFound (-32601, "Method not *)
(* found") and the request's id, and no handler is invoked.                *)
C7_UnregisteredIsMethodNotFound ==
    \A i \in 1..Len(calls) :
        (WellFormed(data.items[i]) /\ data.items[i].method.s \notin RegisteredNames) =>
            /\ calls[i].st = "resolved"
            /\ ~calls[i].invoked
            /\ calls[i].response.id = data.items[i].id
            /\ calls[i].response.error.code = MethodNotFound
            /\ calls[i].response.error.message = "Method not found"

\* handleRequest answered item i with InvalidRequest and id null at its
\* first stage: no request was made, nothing looked up, resolved or invoked
RejectedAsInvalid(i) ==
    /\ calls[i].st = "resolved"
    /\ calls[i].response.error.class = "JsonRpcError"
    /\ calls[i].response.error.code = InvalidRequest
    /\ calls[i].response.id = Null
    /\ JsonRpcResponse_toJSON(calls[i].response).id = Null
    /\ ~calls[i].response.request.defined
    /\ ~calls[i].request.defined
    /\ ~calls[i].invoked /\ calls[i].args = <<>>

(* C8, as claimed: an item whose version is not "2.0", whose id is not a   *)
(* string, safe integer, null or absent, or whose method is not a          *)
(* non-empty string is answered with InvalidRequest and id null, with no   *)
(* lookup, resolution or invocation.                                       *)
C8_InvalidItemsRejected ==
    \A i \in 1..Len(calls) :
        (~WellFormed(data.items[i]) \/ data.items[i].method = JStr(""))
            => RejectedAsInvalid(i)

(* C8, amended: an item whose version is not "2.0", whose id is not a      *)
(* string, safe integer, null or absent, or whose method is not a string   *)
(* is answered with InvalidRequest and id null, with no lookup, resolution *)
(* or invocation.                                                          *)
C8_MalformedItemsRejected ==
    \A i \in 1..Len(calls) : ~WellFormed(data.items[i]) => RejectedAsInvalid(i)

\* an item that carried the valid id 1 with version "1.0" was answered with
\* InvalidRequest and id null
C8_Witness ==
    /\ Dispatched
    /\ data.items[1].jsonrpc = JStr("1.0") /\ data.items[1].id = JInt(1)
    /\ RejectedAsInvalid(1)

(* C9: when an invoked handler throws, a thrown JsonRpcError goes into the *)
(* Response's error unchanged, any other thrown value gives an error of    *)
(* code InternalError; either way the Response has the request's id and no *)
(* result, and the status stays 200.                                       *)
C9_ThrownBecomesError ==
    \A i \in 1..Len(calls) :
        calls[i].outcome.kind = "throw" =>
            LET thrown == calls[i].outcome.error
                r      == calls[i].response
            IN  /\ calls[i].st = "resolved"
                /\ IF thrown.class = "JsonRpcError"
                   THEN r.error = thrown
                   ELSE r.error.code = InternalError
                /\ r.id = calls[i].request.id
                /\ "result" \notin JsonRpcResponse_toJSON(r).keys
                /\ ctx.status = 200

(* C10: a thrown value that is no JsonRpcError never shows on the wire:    *)
(* whatever it is, the serialized Response is {jsonrpc "2.0", id, error    *)
(* {code -32603, message "Internal error"}}.                               *)
C10_InternalErrorIsGeneric ==
    \A i \in 1..Len(calls) :
        (/\ calls[i].outcome.kind = "throw"
         /\ calls[i].outcome.error.class # "JsonRpcError"
         /\ calls[i].st = "resolved") =>
            JsonRpcResponse_toJSON(calls[i].response) =
                [ErrorWire(InternalError, "Internal error") EXCEPT
                    !.id = calls[i].request.id,
                    !.keys = IF calls[i].request.id.t = "undefined"
                             THEN {"jsonrpc", "error"}
                             ELSE {"jsonrpc", "id", "error"}]

\* two handleRequest calls that differ at most in the child logger they hold
SameDispatch(c1, c2) ==
    /\ c1.st = c2.st
    /\ c1.invoked = c2.invoked
    /\ c1.method = c2.method
    /\ c1.args = c2.args
    /\ c1.response = c2.response

(* C11: the logger does not change dispatch: at the step that hands the    *)
(* payload to handleRequest, every call (its state, whether and which      *)
(* handler it invokes, with which arguments, and the Response it has so    *)
(* far) is what the same call is on a context with no logger.              *)
C11_LoggerChangesNothing ==
    [][(pc = "reading" /\ pc' = "awaiting") =>
           \A i \in 1..Len(calls') :
               SameDispatch(calls'[i],
                            handleRequest(methods, reqBody.items[i], "undefined"))]_vars

(* C12: names are registered once: a name is refused by register exactly   *)
(* when it is registered already (so a name not registered before is       *)
(* accepted), no name has two entries, and the handler a call invokes is   *)
(* the one stored under the name the request asks for.                     *)
C12_RegisterOnceOnly ==
    /\ \A name \in RegisterNames :
           LET n == RegisteredName(namespace, name)
           IN  registerThrows(methods, n) <=> n \in RegisteredNames
    /\ \A e1 \in methods, e2 \in methods : e1.name = e2.name => e1 = e2
    /\ \A i \in 1..Len(calls) :
           calls[i].invoked =>
               \E e \in methods : /\ e.name = calls[i].request.method.s
                                  /\ e.method = calls[i].method

(* C13: register stores a handler under exactly the namespaced name: every *)
(* stored name is "ns.name" (name itself without a namespace) of a name    *)
(* given to register; a well-formed request for a stored name is not       *)
(* answered MethodNotFound and invokes the stored handler (unless its      *)
(* params do not resolve or the logger fails); and with a namespace, a     *)
(* request for the bare name of a stored "ns.name" is answered             *)
(* MethodNotFound.                                                         *)
C13_StoredUnderNamespacedName ==
    [][/\ \A e \in methods' :
              \E name \in RegisterNames : e.name = RegisteredName(namespace, name)
       /\ (pc = "reading" /\ pc' = "awaiting") =>
              \A i \in 1..Len(calls') :
                  LET d == reqBody.items[i]
                      c == calls'[i]
                  IN  WellFormed(d) =>
                          /\ \A e \in methods :
                                 e.name = d.method.s =>
                                     \/ c.invoked /\ c.method = e.method
                                     \/ /\ c.st = "resolved"
                                        /\ c.response.error.code = InvalidParams
                                     \/ ctx.log = "throws"
                          /\ (/\ namespace # ""
                              /\ RegisteredName(namespace, d.method.s) \in RegisteredNames) =>
                                 /\ c.st = "resolved"
                                 /\ c.response.error.code = MethodNotFound]_vars

\* the context given to the constructor is not empty: it has a cause or info
ContextGiven(c) == TruthyThrown(c.cause) \/ c.info # {}

(* C14 as stated: the serialized error has the error's code and message,   *)
(* and has the key data exactly when the context given at construction     *)
(* (cause, info or both) was not empty.                                    *)
C14_DataIffContextGiven ==
    rpcError.st = "written" =>
        /\ rpcError.json.code = rpcError.code
        /\ rpcError.json.message = rpcError.e.message
        /\ rpcError.json.keys = IF ContextGiven(rpcError) THEN {"code", "data", "message"}
                             ELSE {"code", "message"}

(* C14: the serialized error has the error's code and message, and has the *)
(* key data exactly when the info given at construction, merged with the   *)
(* info of the cause, is not empty: data is then that merged info, and     *)
(* otherwise the form is exactly {code, message}.  A cause that carries no *)
(* info gives no data key.                                                 *)
C14_DataIffInfo ==
    rpcError.st = "written" =>
        LET info == MergeInfo(IF TruthyThrown(rpcError.cause) THEN rpcError.cause.info ELSE {},
                              rpcError.info)
        IN  /\ rpcError.json.code = rpcError.code
            /\ rpcError.json.message = rpcError.e.message
            /\ IF info # {}
               THEN /\ rpcError.json.keys = {"code", "data", "message"}
                    /\ rpcError.json.data = info
               ELSE /\ rpcError.json.keys = {"code", "message"}
                    /\ rpcError.json.data = {}

\* an error made with a cause that carries no info, and serialized
C14_Witness ==
    /\ rpcError.st = "written"
    /\ rpcError.cause.class = "Error"
    /\ rpcError.info = {}
    /\ "data" \notin rpcError.json.keys

(* C15: the stages of handleRequest run in order and stop at the first     *)
(* failure: a call invokes a handler only for a well-formed item whose     *)
(* method is registered and whose params resolve, and then that handler    *)
(* with the resolved arguments; an item whose params do not resolve gets   *)
(* an InvalidParams Response with its id and no invocation; and every call *)
(* that has ended has made one Response.                                   *)
C15_StagesInOrderOneResponse ==
    [][/\ \A i \in 1..Len(calls') :
              calls'[i].st # "pending" =>
                  calls'[i].st = "resolved" /\ calls'[i].response # NoResponse
       /\ (pc = "reading" /\ pc' = "awaiting") =>
              \A i \in 1..Len(calls') :
                  LET d        == reqBody.items[i]
                      c        == calls'[i]
                      handler  == MethodsGet(methods, d.method.s)
                      resolved == IF d.params.t # "undefined"
                                  THEN resolveParams(d.params, handler)
                                  ELSE [threw |-> FALSE, args |-> <<>>, e |-> NoError]
                  IN  /\ c.invoked =>
                             /\ WellFormed(d)
                             /\ handler.kind = "own"
                             /\ ~resolved.threw
                             /\ c.method = handler.method
                             /\ c.args = resolved.args
                      /\ (WellFormed(d) /\ handler.kind # "undefined" /\ resolved.threw) =>
                             /\ c.st = "resolved"
                             /\ c.response.error.code = InvalidParams
                             /\ c.response.id = d.id
                             /\ ~c.invoked]_vars

(* C16: in a batch no item holds back another: at the one step that hands  *)
(* the array to handleRequest, every item that is well-formed, registered  *)
(* and whose params resolve has its handler invoked, before any handler    *)
(* has completed; the body is written only when every call has ended with  *)
(* its Response; and once every call of the batch has ended the exchange   *)
(* has completed or is free to complete.                                   *)
C16_BatchItemsIndependent ==
    [][/\ (pc = "reading" /\ pc' = "awaiting" /\ reqBody.t = "array") =>
              \A i \in 1..Len(calls') :
                  LET d        == reqBody.items[i]
                      handler  == MethodsGet(methods, d.method.s)
                      resolved == IF d.params.t # "undefined"
                                  THEN resolveParams(d.params, handler)
                                  ELSE [threw |-> FALSE, args |-> <<>>, e |-> NoError]
                  IN  (WellFormed(d) /\ handler.kind = "own" /\ ~resolved.threw) =>
                          calls'[i].invoked /\ calls'[i].method = handler.method
       /\ (data.t = "array" /\ Len(calls) > 0 /\ ctx'.body # ctx.body) =>
              \A i \in 1..Len(calls) : calls[i].st = "resolved"
       /\ (/\ data'.t = "array"
           /\ Len(calls') > 0
           /\ \A i \in 1..Len(calls') : calls'[i].st # "pending") =>
              \/ pc' = "done"
              \/ pc' = "awaiting" /\ \A i \in 1..Len(calls') : calls'[i].st = "resolved"]_vars

(* C17: the registry is read-only during dispatch: a step that changes the *)
(* registry is a call of register, which adds one entry and touches        *)
(* nothing of the exchange in hand; no step removes or replaces an entry.  *)
C17_RegistryReadOnlyInDispatch ==
    [][/\ methods \subseteq methods'
       /\ methods' # methods =>
              \E name \in RegisterNames, method \in Handlers : register(name, method)]_vars

\* an exchange that invoked a registered handler has ended
C17_Witness ==
    /\ pc = "done"
    /\ methods # {}
    /\ \E i \in 1..Len(calls) : calls[i].invoked /\ calls[i].st = "resolved"

\* the exchange in hand is one the transport rejects: its verb is no POST,
\* its body is no JSON, or its body is the empty array
TransportRejected ==
    /\ pc # "idle"
    /\ \/ ctx.method # "POST"
       \/ reqBody.t = "malformed"
       \/ reqBody.t = "array" /\ Len(reqBody.items) = 0

(* C18: an exchange the transport rejects dispatches nothing: handleRequest *)
(* is never called (so no handler is invoked), rpc_responses is never set,  *)
(* and when the verb is no POST the body is never read.                     *)
C18_TransportRejectedDispatchesNothing ==
    TransportRejected =>
        /\ calls = <<>>
        /\ ~ctx.rpc_responses.set
        /\ ctx.method # "POST" => pc = "done" /\ data.t = "undefined"

\* an empty batch has been rejected, on a registry that holds a method
C18_Witness ==
    /\ TransportRejected
    /\ pc = "done"
    /\ methods # {}
    /\ ctx.status = 400
    /\ reqBody.t = "array"

\* the indices of the calls whose Response is visible
Visible == {i \in 1..Len(calls) : isValidResponse(calls[i].response)}

\* the k-th index of Visible, counted from the lowest
KthVisible(k) == CHOOSE i \in Visible : Cardinality({j \in Visible : j <= i}) = k

(* C19: the output of a batch keeps the order of the input: when a batch   *)
(* has ended, the k-th Response of the output array (and of the body) is   *)
(* the Response of the k-th item that has a visible Response, so no        *)
(* visible Response is left out, none is added, and none changes place,    *)
(* in whatever order the handlers completed.                               *)
C19_BatchOutputInInputOrder ==
    (pc = "done" /\ data.t = "array" /\ Len(calls) > 0) =>
        LET out == ctx.rpc_responses.rs
        IN  /\ Len(out) = Cardinality(Visible)
            /\ \A k \in 1..Len(out) : out[k] = calls[KthVisible(k)].response
            /\ ctx.body.rs = out

\* a batch of two invoked handlers has ended with two different visible
\* Responses
C19_Witness ==
    /\ pc = "done"
    /\ data.t = "array"
    /\ Len(calls) = 2
    /\ calls[1].invoked /\ calls[2].invoked
    /\ Len(ctx.rpc_responses.rs) = 2
    /\ ctx.rpc_responses.rs[1] # ctx.rpc_responses.rs[2]

(* C20: next is called exactly once on every path through the middleware,  *)
(* and only after status and body are set: it is never called twice, at    *)
(* its call the status is the middleware's and the body is set, and an     *)
(* exchange that has ended with every handler completed has called it.     *)
C20_NextCalledExactlyOnce ==
    /\ nextCalls <= 1
    /\ nextCalls = 1 => ctx.status \in {200, 400, 405} /\ ctx.body.t # "undefined"
    /\ (ExchangeEnded /\ \A i \in 1..Len(calls) : calls[i].st # "pending") =>
           nextCalls = 1
====
